---- MODULE Spec2Model ----
(***************************************************************************)
(* Property access, prototype/scope traversal (props.c) and the Object     *)
(* namespace built on it (runtime/lib/Object.c) of the flathead runtime.   *)
(*                                                                         *)
(* A JSValue pointer is a tagged reference: primitives carry their payload *)
(* by value (they are immutable and never compared by address), Object and *)
(* Function kinds carry the index of their cell in the heap.  A JSProp     *)
(* pointer is the pair (owning cell, position in that cell's table).       *)
(***************************************************************************)
EXTENDS Integers, Sequences, FiniteSets, TLC

VARIABLES heap, call, ret, err

vars == <<heap, call, ret, err>>

\* Number of heap cells (Object/Function values) the model can hold.
MaxVal == 5

Cells == 1..MaxVal

----------------------------------------------------------------------------
\* Tagged values

T_UNDEF == "T_UNDEF"
T_BOOLEAN == "T_BOOLEAN"
T_NUMBER == "T_NUMBER"
T_STRING == "T_STRING"
T_OBJECT == "T_OBJECT"
T_FUNCTION == "T_FUNCTION"
T_ARRAY == "T_ARRAY"

JSValue(type, ref, bool, num, str) ==
  [type |-> type, ref |-> ref, bool |-> bool, num |-> num, str |-> str]

\* The C null pointer.
NULL == JSValue("NULL", 0, FALSE, 0, "")

JSUNDEF == JSValue(T_UNDEF, 0, FALSE, 0, "")
JSBOOL(b) == JSValue(T_BOOLEAN, 0, b, 0, "")
JSNUM(n) == JSValue(T_NUMBER, 0, FALSE, n, "")
JSSTR(s) == JSValue(T_STRING, 0, FALSE, 0, s)
ObjRef(i) == JSValue(T_OBJECT, i, FALSE, 0, "")
FuncRef(i) == JSValue(T_FUNCTION, i, FALSE, 0, "")
ArrRef(i) == JSValue(T_ARRAY, i, FALSE, 0, "")

\* Property flags: a JSPropFlags word is the set of the bits it has set.
P_WRITE == "P_WRITE"
P_ENUM == "P_ENUM"
P_CONF == "P_CONF"
P_NONE == {}
P_DEFAULT == {P_WRITE, P_ENUM, P_CONF}

\* A heap cell: the object part of a JSValue (table, links, state flags),
\* the bound instance of a function and the length of an array.
NewCell(type) ==
  [used |-> TRUE, type |-> type, map |-> <<>>, proto |-> NULL, parent |-> NULL,
   extensible |-> FALSE, sealed |-> FALSE, frozen |-> FALSE,
   instance |-> NULL, length |-> 0]

FreeCell == [NewCell("") EXCEPT !.used = FALSE]

\* Errors raised through fh_error, which unwinds to the evaluator.
E_TYPE == "TypeError"
NoError == [kind |-> "", msg |-> ""]

\* The process killed by a read through a null pointer.
SIGSEGV == [kind |-> "SIGSEGV", msg |-> ""]
fh_error(kind, msg) == [kind |-> kind, msg |-> msg]

----------------------------------------------------------------------------
\* props.c : get

NULLPROP == [owner |-> 0, idx |-> 0]

\* prop->field for a non-null JSProp pointer
Deref(h, prop) == h[prop.owner].map[prop.idx]

RECURSIVE HASH_FIND_STR(_, _, _)
HASH_FIND_STR(map, name, i) ==
  IF i > Len(map) THEN 0
  ELSE IF map[i].name = name THEN i
  ELSE HASH_FIND_STR(map, name, i + 1)

fh_get_prop(h, obj, name) ==
  LET map == h[obj.ref].map
      i == IF map # <<>> THEN HASH_FIND_STR(map, name, 1) ELSE 0
  IN IF i = 0 THEN NULLPROP ELSE [owner |-> obj.ref, idx |-> i]

\* Mutant: the scope walk follows prototype links.
RECURSIVE fh_get_prop_rec_by_proto(_, _, _)
fh_get_prop_rec_by_proto(h, obj, name) ==
  LET prop == fh_get_prop(h, obj, name)
  IN IF prop = NULLPROP /\ h[obj.ref].proto # NULL
     THEN fh_get_prop_rec_by_proto(h, h[obj.ref].proto, name)
     ELSE prop

RECURSIVE fh_get_prop_rec(_, _, _)
fh_get_prop_rec(h, obj, name) ==
  LET prop == fh_get_prop(h, obj, name)
  IN IF prop = NULLPROP /\ h[obj.ref].parent # NULL
     THEN fh_get_prop_rec(h, h[obj.ref].parent, name)
     ELSE prop

RECURSIVE fh_get_prop_proto(_, _, _)
fh_get_prop_proto(h, obj, name) ==
  LET prop == fh_get_prop(h, obj, name)
  IN IF prop = NULLPROP /\ h[obj.ref].proto # NULL
     THEN fh_get_prop_proto(h, h[obj.ref].proto, name)
     ELSE prop

\* Mutant: the own get falls back on the prototype chain.
fh_get_inherited(h, obj, name) ==
  IF obj.type = T_UNDEF
  THEN [heap |-> h, ret |-> NULL,
        err |-> fh_error(E_TYPE,
                  "Cannot read property '" \o name \o "' of undefined")]
  ELSE LET prop == fh_get_prop_proto(h, obj, name)
       IN [heap |-> h,
           ret |-> IF prop # NULLPROP THEN Deref(h, prop).ptr ELSE JSUNDEF,
           err |-> NoError]

\* Results are [heap, ret, err]: the heap after the call, the value returned
\* and the error raised (NoError when the call returns).
fh_get(h, obj, name) ==
  IF obj.type = T_UNDEF
  THEN [heap |-> h, ret |-> NULL,
        err |-> fh_error(E_TYPE,
                  "Cannot read property '" \o name \o "' of undefined")]
  ELSE LET prop == fh_get_prop(h, obj, name)
       IN [heap |-> h,
           ret |-> IF prop # NULLPROP THEN Deref(h, prop).ptr ELSE JSUNDEF,
           err |-> NoError]

fh_get_rec(h, obj, name) ==
  LET prop == fh_get_prop_rec(h, obj, name)
  IN [heap |-> h,
      ret |-> IF prop # NULLPROP THEN Deref(h, prop).ptr ELSE JSUNDEF,
      err |-> NoError]

\* Mutant: the function is bound to the object that owns the record.
fh_get_proto_bind_owner(h, obj, name) ==
  LET prop == fh_get_prop_proto(h, obj, name)
      val == IF prop # NULLPROP THEN Deref(h, prop).ptr ELSE JSUNDEF
  IN [heap |-> IF val.type = T_FUNCTION
               THEN [h EXCEPT ![val.ref].instance = ObjRef(prop.owner)]
               ELSE h,
      ret |-> val,
      err |-> NoError]

\* Mutant: a function already bound keeps its instance.
fh_get_proto_bind_once(h, obj, name) ==
  LET prop == fh_get_prop_proto(h, obj, name)
      val == IF prop # NULLPROP THEN Deref(h, prop).ptr ELSE JSUNDEF
  IN [heap |-> IF val.type = T_FUNCTION /\ h[val.ref].instance = NULL
               THEN [h EXCEPT ![val.ref].instance = obj]
               ELSE h,
      ret |-> val,
      err |-> NoError]

fh_get_proto(h, obj, name) ==
  LET prop == fh_get_prop_proto(h, obj, name)
      val == IF prop # NULLPROP THEN Deref(h, prop).ptr ELSE JSUNDEF
  IN [heap |-> IF val.type = T_FUNCTION
               THEN [h EXCEPT ![val.ref].instance = obj]
               ELSE h,
      ret |-> val,
      err |-> NoError]

----------------------------------------------------------------------------
\* props.c : set and delete

fh_new_prop(flags) ==
  [name |-> "", ptr |-> NULL, writable |-> P_WRITE \in flags,
   enumerable |-> P_ENUM \in flags, configurable |-> P_CONF \in flags,
   circular |-> 0]

\* Mutant: the record is added even when the name exists.
fh_set_prop_always_add(h, obj, name, val, flags) ==
  [h EXCEPT ![obj.ref].map =
     Append(@, [fh_new_prop(flags) EXCEPT !.name = name, !.ptr = val])]

\* Mutant: a record that is not writable, and a frozen object, are left as
\* they are.
fh_set_prop_gated(h, obj, name, val, flags) ==
  LET found == fh_get_prop(h, obj, name)
      prop == IF found = NULLPROP THEN fh_new_prop(P_DEFAULT) ELSE Deref(h, found)
      filled == [prop EXCEPT !.writable = P_WRITE \in flags,
                             !.configurable = P_CONF \in flags,
                             !.enumerable = P_ENUM \in flags,
                             !.name = name,
                             !.ptr = val,
                             !.circular = IF val = obj THEN 1 ELSE 0]
  IN IF h[obj.ref].frozen \/ (found # NULLPROP /\ ~prop.writable) THEN h
     ELSE IF found = NULLPROP
     THEN [h EXCEPT ![obj.ref].map = Append(@, filled)]
     ELSE [h EXCEPT ![obj.ref].map[found.idx] = filled]

fh_set_prop(h, obj, name, val, flags) ==
  LET found == fh_get_prop(h, obj, name)
      add == found = NULLPROP
      prop == IF add THEN fh_new_prop(P_DEFAULT) ELSE Deref(h, found)
      filled == [prop EXCEPT !.writable = P_WRITE \in flags,
                             !.configurable = P_CONF \in flags,
                             !.enumerable = P_ENUM \in flags,
                             !.name = name,
                             !.ptr = val,
                             !.circular = IF val = obj THEN 1 ELSE 0]
  IN IF add
     THEN [h EXCEPT ![obj.ref].map = Append(@, filled)]
     ELSE [h EXCEPT ![obj.ref].map[found.idx] = filled]

fh_set(h, obj, name, val) == fh_set_prop(h, obj, name, val, P_DEFAULT)

\* The loop of fh_set_rec: from (obj, prop, parent) to their values at exit.
RECURSIVE fh_set_rec_loop(_, _, _, _, _)
fh_set_rec_loop(h, obj, name, prop, parent) ==
  IF prop # NULLPROP THEN [prop |-> prop, parent |-> parent]
  ELSE IF h[obj.ref].parent = NULL THEN [prop |-> prop, parent |-> parent]
  ELSE LET p == h[obj.ref].parent
       IN fh_set_rec_loop(h, p, name, fh_get_prop(h, p, name), p)

\* Mutant: the write always lands in the innermost scope.
scope_to_set_innermost(h, obj, name) == obj

\* The scope fh_set_rec writes to.
scope_to_set(h, obj, name) ==
  LET out == fh_set_rec_loop(h, obj, name, fh_get_prop(h, obj, name), NULL)
  IN IF out.prop # NULLPROP /\ out.parent # NULL THEN out.parent ELSE obj

fh_set_rec(h, obj, name, val) ==
  fh_set(h, scope_to_set(h, obj, name), name, val)

HASH_DEL(map, i) ==
  [k \in 1..(Len(map) - 1) |-> IF k < i THEN map[k] ELSE map[k + 1]]

\* Mutant: the record is looked up, and deleted, along the prototype chain.
fh_del_prop_inherited(h, obj, name) ==
  LET deletee == fh_get_prop_proto(h, obj, name)
  IN IF deletee # NULLPROP
     THEN [h EXCEPT ![deletee.owner].map = HASH_DEL(@, deletee.idx)]
     ELSE h

fh_del_prop(h, obj, name) ==
  LET deletee == fh_get_prop(h, obj, name)
  IN IF deletee # NULLPROP
     THEN [h EXCEPT ![obj.ref].map = HASH_DEL(@, deletee.idx)]
     ELSE h

----------------------------------------------------------------------------
\* runtime/lib/Object.c.  A native method takes (heap, instance, args) and
\* yields [heap, ret, err].

Return(h, val) == [heap |-> h, ret |-> val, err |-> NoError]
Raise(h, e) == [heap |-> h, ret |-> NULL, err |-> e]

\* The n-th argument, Undefined when the call passes fewer.
ARGN(args, n) == IF n < Len(args) THEN args[n + 1] ELSE JSUNDEF
ARG0(args) == ARGN(args, 0)

\* Allocation: the first free cell becomes a fresh object or array.
HasFree(h) == \E i \in DOMAIN h : ~h[i].used
FreshCell(h) ==
  CHOOSE i \in DOMAIN h : ~h[i].used /\ \A j \in DOMAIN h : j < i => h[j].used
JSOBJ(h) == [heap |-> [h EXCEPT ![FreshCell(h)] = NewCell(T_OBJECT)],
             val |-> ObjRef(FreshCell(h))]
JSARR(h) == [heap |-> [h EXCEPT ![FreshCell(h)] = NewCell(T_ARRAY)],
             val |-> ArrRef(FreshCell(h))]

fh_arr_set_len(h, arr, len) == [h EXCEPT ![arr.ref].length = len]

\* JSCAST(JSNUM(i), T_STRING)->string.ptr : the decimal digits of i.
Digit(d) == <<"0", "1", "2", "3", "4", "5", "6", "7", "8", "9">>[d + 1]
RECURSIVE NumToStr(_)
NumToStr(i) == IF i < 10 THEN Digit(i) ELSE NumToStr(i \div 10) \o Digit(i % 10)

\* Mutant: a Function-kind argument passes for an object.
obj_or_throw_callable(maybe_obj, name) ==
  IF maybe_obj = NULL \/ maybe_obj.type \notin {T_OBJECT, T_FUNCTION}
  THEN fh_error(E_TYPE, "Object." \o name \o " called on a non-object")
  ELSE NoError

\* The error obj_or_throw raises, NoError when it returns maybe_obj.
obj_or_throw(maybe_obj, name) ==
  IF maybe_obj = NULL \/ maybe_obj.type # T_OBJECT
  THEN fh_error(E_TYPE, "Object." \o name \o " called on a non-object")
  ELSE NoError

\* Mutant: a flag is set by any Boolean-kind field, true or false.
flags_from_descriptor_any_bool(h, desc) ==
  LET enumerable == fh_get(h, desc, "enumerable")
      configurable == fh_get(h, desc, "configurable")
      writable == fh_get(h, desc, "writable")
  IN IF enumerable.err # NoError THEN [flags |-> P_NONE, err |-> enumerable.err]
     ELSE [flags |->
             {fl \in {P_ENUM} : enumerable.ret.type = T_BOOLEAN}
               \cup {fl \in {P_CONF} : configurable.ret.type = T_BOOLEAN}
               \cup {fl \in {P_WRITE} : writable.ret.type = T_BOOLEAN},
           err |-> NoError]

\* [flags, err]: the flag word, or the error the first fh_get raises.
flags_from_descriptor(h, desc) ==
  LET enumerable == fh_get(h, desc, "enumerable")
      configurable == fh_get(h, desc, "configurable")
      writable == fh_get(h, desc, "writable")
  IN IF enumerable.err # NoError THEN [flags |-> P_NONE, err |-> enumerable.err]
     ELSE [flags |->
             {fl \in {P_ENUM} :
                enumerable.ret.type = T_BOOLEAN /\ enumerable.ret.bool}
               \cup {fl \in {P_CONF} :
                       configurable.ret.type = T_BOOLEAN /\ configurable.ret.bool}
               \cup {fl \in {P_WRITE} :
                       writable.ret.type = T_BOOLEAN /\ writable.ret.bool},
           err |-> NoError]

obj_define_property(h, instance, args) ==
  LET thrown == obj_or_throw(ARG0(args), "defineProperty")
      obj == ARG0(args)
      prop == ARGN(args, 1)
      desc == ARGN(args, 2)
      flags == flags_from_descriptor(h, desc)
      value == fh_get(h, desc, "value")
  IN IF thrown # NoError THEN Raise(h, thrown)
     ELSE IF flags.err # NoError THEN Raise(h, flags.err)
     ELSE IF value.err # NoError THEN Raise(h, value.err)
     ELSE Return(fh_set_prop(h, obj, prop.str, value.ret, flags.flags), obj)

\* Mutant: non-enumerable records of props are installed too.
RECURSIVE install_descriptors_all(_, _, _, _)
install_descriptors_all(h, obj, props, i) ==
  IF i > Len(h[props.ref].map) THEN h
  ELSE LET p == h[props.ref].map[i]
       IN IF p.ptr # NULL /\ p.ptr.type = T_OBJECT
          THEN install_descriptors_all(
                 fh_set_prop(h, obj, p.name, fh_get(h, p.ptr, "value").ret,
                             flags_from_descriptor(h, p.ptr).flags),
                 obj, props, i + 1)
          ELSE install_descriptors_all(h, obj, props, i + 1)

\* OBJ_ITER over props from its i-th record on, as in obj_create and
\* obj_define_properties: each enumerable record whose value is an object is
\* installed on obj.
RECURSIVE install_descriptors(_, _, _, _)
install_descriptors(h, obj, props, i) ==
  IF i > Len(h[props.ref].map) THEN h
  ELSE LET p == h[props.ref].map[i]
       IN IF ~p.enumerable THEN install_descriptors(h, obj, props, i + 1)
          ELSE IF p.ptr # NULL /\ p.ptr.type = T_OBJECT
          THEN install_descriptors(
                 fh_set_prop(h, obj, p.name, fh_get(h, p.ptr, "value").ret,
                             flags_from_descriptor(h, p.ptr).flags),
                 obj, props, i + 1)
          ELSE install_descriptors(h, obj, props, i + 1)

\* Mutant: create also makes the new object the prototype of its prototype.
obj_create_linked_back(h, instance, args) ==
  LET proto == ARG0(args)
      obj == JSOBJ(h)
      h1 == [obj.heap EXCEPT ![obj.val.ref].proto = proto]
  IN Return([h1 EXCEPT ![proto.ref].proto = obj.val], obj.val)

\* Object.create: a fresh object whose prototype is the first argument, as
\* passed; the descriptors of the second are installed on it.
obj_create(h, instance, args) ==
  LET proto == ARG0(args)
      props == ARGN(args, 1)
      obj == JSOBJ(h)
      h1 == [obj.heap EXCEPT ![obj.val.ref].proto = proto]
  IN IF props.type = T_OBJECT
     THEN Return(install_descriptors(h1, obj.val, props, 1), obj.val)
     ELSE Return(h1, obj.val)

obj_define_properties(h, instance, args) ==
  LET thrown == obj_or_throw(ARG0(args), "defineProperties")
      obj == ARG0(args)
      props == ARGN(args, 1)
  IN IF thrown # NoError THEN Raise(h, thrown)
     ELSE IF props.type = T_OBJECT
     THEN Return(install_descriptors(h, obj, props, 1), obj)
     ELSE Return(h, obj)

\* What reading through the null JSProp pointer can yield: a crash, or a
\* record of whatever lies there.
GarbageProps ==
  {[fh_new_prop(flags) EXCEPT !.ptr = JSUNDEF] : flags \in {P_NONE, P_DEFAULT}}

descriptor_of(h, prop) ==
  LET descriptor == JSOBJ(h)
      h1 == fh_set(descriptor.heap, descriptor.val, "value", prop.ptr)
      h2 == fh_set(h1, descriptor.val, "configurable", JSBOOL(prop.configurable))
      h3 == fh_set(h2, descriptor.val, "writable", JSBOOL(prop.writable))
      h4 == fh_set(h3, descriptor.val, "enumerable", JSBOOL(prop.enumerable))
  IN Return(h4, descriptor.val)

\* Mutant: the writable and configurable fields are swapped.
obj_get_own_property_descriptor_swapped(h, instance, args) ==
  LET obj == ARG0(args)
      prop == fh_get_prop(h, obj, ARGN(args, 1).str)
  IN IF obj_or_throw(obj, "getOwnPropertyDescriptor") # NoError
     THEN {Raise(h, obj_or_throw(obj, "getOwnPropertyDescriptor"))}
     ELSE IF prop = NULLPROP THEN {Raise(h, SIGSEGV)}
     ELSE {descriptor_of(h, [Deref(h, prop) EXCEPT
                               !.writable = Deref(h, prop).configurable,
                               !.configurable = Deref(h, prop).writable])}

\* The set of outcomes: one, unless the record does not exist and the null
\* pointer is read.
obj_get_own_property_descriptor(h, instance, args) ==
  LET thrown == obj_or_throw(ARG0(args), "getOwnPropertyDescriptor")
      obj == ARG0(args)
      prop_name == ARGN(args, 1)
      prop == fh_get_prop(h, obj, prop_name.str)
  IN IF thrown # NoError THEN {Raise(h, thrown)}
     ELSE IF prop = NULLPROP
     THEN {Raise(h, SIGSEGV)}
            \cup {descriptor_of(h, g) : g \in GarbageProps}
     ELSE {descriptor_of(h, Deref(h, prop))}

\* Mutant: a name is stored under the position of its record, not under the
\* count of names stored so far.
RECURSIVE names_loop_by_position(_, _, _, _, _, _)
names_loop_by_position(h, obj, arr, p, i, all) ==
  IF p > Len(h[obj.ref].map) THEN [heap |-> h, i |-> i]
  ELSE IF all \/ h[obj.ref].map[p].enumerable
  THEN names_loop_by_position(
         fh_set(h, arr, NumToStr(p - 1), JSSTR(h[obj.ref].map[p].name)),
         obj, arr, p + 1, i + 1, all)
  ELSE names_loop_by_position(h, obj, arr, p + 1, i, all)

\* The loop of obj_keys and obj_get_own_property_names from the p-th record
\* of obj on, i names stored so far: [heap, i] at its exit.
RECURSIVE names_loop(_, _, _, _, _, _)
names_loop(h, obj, arr, p, i, all) ==
  IF p > Len(h[obj.ref].map) THEN [heap |-> h, i |-> i]
  ELSE IF all \/ h[obj.ref].map[p].enumerable
  THEN names_loop(fh_set(h, arr, NumToStr(i), JSSTR(h[obj.ref].map[p].name)),
                  obj, arr, p + 1, i + 1, all)
  ELSE names_loop(h, obj, arr, p + 1, i, all)

obj_keys(h, instance, args) ==
  LET thrown == obj_or_throw(ARG0(args), "keys")
      obj == ARG0(args)
      keys == JSARR(h)
      out == names_loop(keys.heap, obj, keys.val, 1, 0, FALSE)
  IN IF thrown # NoError THEN Raise(h, thrown)
     ELSE Return(fh_arr_set_len(out.heap, keys.val, out.i), keys.val)

obj_get_own_property_names(h, instance, args) ==
  LET thrown == obj_or_throw(ARG0(args), "getOwnPropertyNames")
      obj == ARG0(args)
      names == JSARR(h)
      out == names_loop(names.heap, obj, names.val, 1, 0, TRUE)
  IN IF thrown # NoError THEN Raise(h, thrown)
     ELSE Return(fh_arr_set_len(out.heap, names.val, out.i), names.val)

obj_get_prototype_of(h, instance, args) ==
  LET thrown == obj_or_throw(ARG0(args), "getPrototypeOf")
      obj == ARG0(args)
  IN IF thrown # NoError THEN Raise(h, thrown)
     ELSE Return(h, IF h[obj.ref].proto # NULL THEN h[obj.ref].proto ELSE JSUNDEF)

obj_prevent_extensions(h, instance, args) ==
  LET thrown == obj_or_throw(ARG0(args), "preventExtensions")
      obj == ARG0(args)
  IN IF thrown # NoError THEN Raise(h, thrown)
     ELSE Return([h EXCEPT ![obj.ref].extensible = TRUE], obj)

obj_is_extensible(h, instance, args) ==
  LET thrown == obj_or_throw(ARG0(args), "isExtensible")
      obj == ARG0(args)
  IN IF thrown # NoError THEN Raise(h, thrown)
     ELSE Return(h, JSBOOL(h[obj.ref].extensible))

obj_seal(h, instance, args) ==
  LET thrown == obj_or_throw(ARG0(args), "seal")
      obj == ARG0(args)
  IN IF thrown # NoError THEN Raise(h, thrown)
     ELSE Return([h EXCEPT ![obj.ref].sealed = TRUE], obj)

obj_is_sealed(h, instance, args) ==
  LET thrown == obj_or_throw(ARG0(args), "isSealed")
      obj == ARG0(args)
  IN IF thrown # NoError THEN Raise(h, thrown)
     ELSE Return(h, JSBOOL(h[obj.ref].sealed))

\* Mutant: freezing also seals the object and marks it extensible.
obj_freeze_all_flags(h, instance, args) ==
  LET thrown == obj_or_throw(ARG0(args), "freeze")
      obj == ARG0(args)
  IN IF thrown # NoError THEN Raise(h, thrown)
     ELSE Return([h EXCEPT ![obj.ref].frozen = TRUE, ![obj.ref].sealed = TRUE,
                           ![obj.ref].extensible = TRUE], obj)

obj_freeze(h, instance, args) ==
  LET thrown == obj_or_throw(ARG0(args), "freeze")
      obj == ARG0(args)
  IN IF thrown # NoError THEN Raise(h, thrown)
     ELSE Return([h EXCEPT ![obj.ref].frozen = TRUE], obj)

obj_is_frozen(h, instance, args) ==
  LET thrown == obj_or_throw(ARG0(args), "isFrozen")
      obj == ARG0(args)
  IN IF thrown # NoError THEN Raise(h, thrown)
     ELSE Return(h, JSBOOL(h[obj.ref].frozen))

\* Object.prototype methods: instance is the object the method is called on.

obj_proto_has_own_property(h, instance, args) ==
  LET prop_name == ARG0(args)
  IN Return(h, JSBOOL(fh_get_prop(h, instance, prop_name.str) # NULLPROP))

\* The walk of isPrototypeOf from proto upward.
RECURSIVE is_prototype_of_walk(_, _, _)
is_prototype_of_walk(h, proto, instance) ==
  IF proto = NULL THEN JSBOOL(FALSE)
  ELSE IF proto = instance THEN JSBOOL(TRUE)
  ELSE is_prototype_of_walk(h, h[proto.ref].proto, instance)

\* Mutant: the walk starts at the object itself.
obj_proto_is_prototype_of_reflexive(h, instance, args) ==
  Return(h, is_prototype_of_walk(h, ARG0(args), instance))

obj_proto_is_prototype_of(h, instance, args) ==
  LET obj == ARG0(args)
      proto == h[obj.ref].proto
  IN Return(h, is_prototype_of_walk(h, proto, instance))

obj_proto_property_is_enumerable(h, instance, args) ==
  LET prop_name == ARG0(args)
      prop == fh_get_prop(h, instance, prop_name.str)
  IN Return(h, JSBOOL(prop # NULLPROP /\ Deref(h, prop).enumerable))

obj_proto_to_string(h, instance, args) == Return(h, JSSTR("[object Object]"))

obj_proto_to_locale_string(h, instance, args) ==
  obj_proto_to_string(h, instance, args)

obj_proto_value_of(h, instance, args) == Return(h, instance)

\* JSNFUNC(&fn): a fresh Function-kind value that runs the native fn.
JSNFUNC(h, fn) ==
  [heap |-> [h EXCEPT ![FreshCell(h)] = NewCell(T_FUNCTION) @@ [native |-> fn]],
   val |-> FuncRef(FreshCell(h))]

\* BUILTIN(obj, name, val): val becomes the property name of obj, under the
\* flag word the macro passes.
BUILTIN(h, obj, name, val, flags) == fh_set_prop(h, obj, name, val, flags)

\* The methods bootstrap_object registers, as <<property name, native>>, in
\* the order of registration.
ObjectMethods ==
  << <<"create", "obj_create">>,
     <<"defineProperty", "obj_define_property">>,
     <<"defineProperties", "obj_define_properties">>,
     <<"getOwnPropertyDescriptor", "obj_get_own_property_descriptor">>,
     <<"keys", "obj_keys">>,
     <<"getOwnPropertyName", "obj_get_own_property_names">>,
     <<"getPrototypeOf", "obj_get_prototype_of">>,
     <<"preventExtensions", "obj_prevent_extensions">>,
     <<"isExtensible", "obj_is_extensible">>,
     <<"seal", "obj_seal">>,
     <<"isSealed", "obj_is_sealed">>,
     <<"freeze", "obj_freeze">>,
     <<"isFrozen", "obj_is_frozen">> >>

PrototypeMethods ==
  << <<"hasOwnProperty", "obj_proto_has_own_property">>,
     <<"isPrototypeOf", "obj_proto_is_prototype_of">>,
     <<"propertyIsEnumerable", "obj_proto_property_is_enumerable">>,
     <<"toLocaleString", "obj_proto_to_locale_string">>,
     <<"toString", "obj_proto_to_string">>,
     <<"valueOf", "obj_proto_value_of">> >>

\* BUILTIN(obj, name, JSNFUNC(&fn)) for the methods from the i-th on.  The
\* heap has room for all of them; testing it makes TLC evaluate h here,
\* before the next registration, rather than all at once at the end.
RECURSIVE register_methods(_, _, _, _, _)
register_methods(h, obj, methods, i, flags) ==
  IF i > Len(methods) \/ ~HasFree(h) THEN h
  ELSE LET func == JSNFUNC(h, methods[i][2])
       IN register_methods(BUILTIN(func.heap, obj, methods[i][1], func.val, flags),
                           obj, methods, i + 1, flags)

\* [heap, ret, err] of bootstrap_object(); flags is the flag word of BUILTIN.
bootstrap_object(h, flags) ==
  LET object == JSOBJ(h)
      prototype == JSOBJ(object.heap)
      h1 == BUILTIN(prototype.heap, object.val, "prototype", prototype.val, flags)
      h2 == register_methods(h1, object.val, ObjectMethods, 1, flags)
      h3 == register_methods(h2, prototype.val, PrototypeMethods, 1, flags)
  IN Return(h3, object.val)

----------------------------------------------------------------------------
\* The evaluator's calls into props.c.  call records the last call made, ret
\* and err what it returned or raised.

Call(op, obj, name, val, flags) ==
  [op |-> op, obj |-> obj, name |-> name, val |-> val, flags |-> flags,
   args |-> <<>>]

\* A call of a native method: the instance it is invoked on and its JSArgs.
NativeCall(op, instance, args) ==
  [op |-> op, obj |-> instance, name |-> "", val |-> NULL, flags |-> {},
   args |-> args]

NoCall == Call("", NULL, "", NULL, {})

Returns(r) ==
  /\ err # SIGSEGV
  /\ heap' = r.heap
  /\ ret' = r.ret
  /\ err' = r.err

\* A void function: the heap after it, nothing returned.
Void(h) == [heap |-> h, ret |-> NULL, err |-> NoError]

\* The cells 1..4 hold a function and three objects in every initial state.
F == FuncRef(1)
O1 == ObjRef(2)
O2 == ObjRef(3)
O3 == ObjRef(4)

Objs == {O1, O2, O3}

InitHeap(links) ==
  [i \in Cells |->
     IF i = F.ref THEN NewCell(T_FUNCTION)
     ELSE IF ObjRef(i) \in Objs
          THEN [NewCell(T_OBJECT) EXCEPT !.proto = links[ObjRef(i)][1],
                               !.parent = links[ObjRef(i)][2]]
          ELSE FreeCell]

\* The calls, each over the inputs its specification draws from: receivers,
\* <<object, name>> targets, names, values and flag words.

FhGet(receivers, names) ==
  \E obj \in receivers, name \in names :
    /\ call' = Call("fh_get", obj, name, NULL, {})
    /\ Returns(fh_get(heap, obj, name))

FhGetRec(receivers, names) ==
  \E obj \in receivers, name \in names :
    /\ call' = Call("fh_get_rec", obj, name, NULL, {})
    /\ Returns(fh_get_rec(heap, obj, name))

FhGetProto(receivers, names) ==
  \E obj \in receivers, name \in names :
    /\ call' = Call("fh_get_proto", obj, name, NULL, {})
    /\ Returns(fh_get_proto(heap, obj, name))

FhSet(targets, vals) ==
  \E t \in targets, val \in vals :
    /\ call' = Call("fh_set", t[1], t[2], val, {})
    /\ Returns(Void(fh_set(heap, t[1], t[2], val)))

FhSetProp(targets, vals, words) ==
  \E t \in targets, val \in vals, flags \in words :
    /\ call' = Call("fh_set_prop", t[1], t[2], val, flags)
    /\ Returns(Void(fh_set_prop(heap, t[1], t[2], val, flags)))

FhSetRec(targets, vals) ==
  \E t \in targets, val \in vals :
    /\ call' = Call("fh_set_rec", t[1], t[2], val, {})
    /\ Returns(Void(fh_set_rec(heap, t[1], t[2], val)))

FhDelProp(receivers, names) ==
  \E obj \in receivers, name \in names :
    /\ call' = Call("fh_del_prop", obj, name, NULL, {})
    /\ Returns(Void(fh_del_prop(heap, obj, name)))

----------------------------------------------------------------------------
\* Spec: traversal.  Three objects linked into scope and prototype chains,
\* one name, a number and a function as values.

\* Acyclic prototype / parent-scope graphs over O1, O2, O3, as
\* <<proto, parent>> of each object.
Links ==
  { \* a scope chain O1 -> O2 -> O3
    [o \in Objs |-> IF o = O1 THEN <<NULL, O2>>
                    ELSE IF o = O2 THEN <<NULL, O3>> ELSE <<NULL, NULL>>],
    \* a prototype chain O1 -> O2 -> O3
    [o \in Objs |-> IF o = O1 THEN <<O2, NULL>>
                    ELSE IF o = O2 THEN <<O3, NULL>> ELSE <<NULL, NULL>>],
    \* scopes O1 -> O2 -> O3 whose prototypes run the other way
    [o \in Objs |-> IF o = O1 THEN <<NULL, O2>>
                    ELSE IF o = O2 THEN <<O1, O3>> ELSE <<O2, NULL>>],
    \* O1 in scope O2, whose prototype is O3; O3's prototype is O1
    [o \in Objs |-> IF o = O1 THEN <<NULL, O2>>
                    ELSE IF o = O2 THEN <<O3, NULL>> ELSE <<O1, NULL>>] }

Names == {"x"}
Vals == {JSNUM(7), F}
FlagWords == {P_NONE}
Targets == Objs \X Names

Init ==
  /\ \E links \in Links : heap = InitHeap(links)
  /\ call = NoCall
  /\ ret = NULL
  /\ err = NoError

Next ==
  \/ FhGet(Objs \cup {JSUNDEF}, Names)
  \/ FhGetRec(Objs, Names)
  \/ FhGetProto(Objs, Names)
  \/ FhSet(Targets, Vals)
  \/ FhSetProp(Targets, Vals, FlagWords)
  \/ FhSetRec(Targets, Vals)
  \/ FhDelProp(Objs, Names)

Spec == Init /\ [][Next]_vars

----------------------------------------------------------------------------
\* SpecTable: one table.  O1, with prototype O2 and parent scope O3, holds
\* up to two records under every mix of flags; O2 and O3 hold "x" only.

TableLinks ==
  [o \in Objs |-> IF o = O1 THEN <<O2, O3>> ELSE <<NULL, NULL>>]

TableNames == {"x", "y"}
TableVals == {JSNUM(7), JSNUM(8)}
TableFlagWords == {{P_WRITE}, {P_ENUM}, {P_CONF}}
TableTargets == {<<O1, "x">>, <<O1, "y">>, <<O2, "x">>, <<O3, "x">>}

InitTable ==
  /\ heap = InitHeap(TableLinks)
  /\ call = NoCall
  /\ ret = NULL
  /\ err = NoError

NextTable ==
  \/ FhGet(Objs \cup {JSUNDEF}, TableNames)
  \/ FhGetRec(Objs, TableNames)
  \/ FhGetProto(Objs, TableNames)
  \/ FhSet(TableTargets, TableVals)
  \/ FhSetProp({<<O1, "x">>, <<O1, "y">>}, TableVals, TableFlagWords)
  \/ FhSetRec(TableTargets, TableVals)
  \/ FhDelProp(Objs, TableNames)

SpecTable == InitTable /\ [][NextTable]_vars

----------------------------------------------------------------------------
\* Calls of the Object namespace methods, each over the argument lists its
\* specification draws from.  A method that allocates is called only while
\* the heap has a free cell, unless it raises before allocating.

NoLinks == [o \in Objs |-> <<NULL, NULL>>]

\* The Object-kind values on the heap.
ObjectsOn(h) == {ObjRef(i) : i \in {j \in Cells : h[j].used /\ h[j].type = T_OBJECT}}

ObjCreate(arglists) ==
  \E args \in arglists :
    /\ HasFree(heap)
    /\ call' = NativeCall("create", NULL, args)
    /\ Returns(obj_create(heap, NULL, args))

ObjDefineProperty(arglists) ==
  \E args \in arglists :
    /\ call' = NativeCall("defineProperty", NULL, args)
    /\ Returns(obj_define_property(heap, NULL, args))

ObjDefineProperties(arglists) ==
  \E args \in arglists :
    /\ call' = NativeCall("defineProperties", NULL, args)
    /\ Returns(obj_define_properties(heap, NULL, args))

ObjGetOwnPropertyDescriptor(arglists) ==
  \E args \in arglists :
    /\ HasFree(heap) \/ obj_or_throw(ARG0(args), "getOwnPropertyDescriptor") # NoError
    /\ call' = NativeCall("getOwnPropertyDescriptor", NULL, args)
    /\ \E r \in obj_get_own_property_descriptor(heap, NULL, args) : Returns(r)

ObjKeys(arglists) ==
  \E args \in arglists :
    /\ HasFree(heap) \/ obj_or_throw(ARG0(args), "keys") # NoError
    /\ call' = NativeCall("keys", NULL, args)
    /\ Returns(obj_keys(heap, NULL, args))

ObjGetOwnPropertyNames(arglists) ==
  \E args \in arglists :
    /\ HasFree(heap) \/ obj_or_throw(ARG0(args), "getOwnPropertyNames") # NoError
    /\ call' = NativeCall("getOwnPropertyNames", NULL, args)
    /\ Returns(obj_get_own_property_names(heap, NULL, args))

ObjGetPrototypeOf(arglists) ==
  \E args \in arglists :
    /\ call' = NativeCall("getPrototypeOf", NULL, args)
    /\ Returns(obj_get_prototype_of(heap, NULL, args))

ObjPreventExtensions(arglists) ==
  \E args \in arglists :
    /\ call' = NativeCall("preventExtensions", NULL, args)
    /\ Returns(obj_prevent_extensions(heap, NULL, args))

ObjIsExtensible(arglists) ==
  \E args \in arglists :
    /\ call' = NativeCall("isExtensible", NULL, args)
    /\ Returns(obj_is_extensible(heap, NULL, args))

ObjSeal(arglists) ==
  \E args \in arglists :
    /\ call' = NativeCall("seal", NULL, args)
    /\ Returns(obj_seal(heap, NULL, args))

ObjIsSealed(arglists) ==
  \E args \in arglists :
    /\ call' = NativeCall("isSealed", NULL, args)
    /\ Returns(obj_is_sealed(heap, NULL, args))

ObjFreeze(arglists) ==
  \E args \in arglists :
    /\ call' = NativeCall("freeze", NULL, args)
    /\ Returns(obj_freeze(heap, NULL, args))

ObjIsFrozen(arglists) ==
  \E args \in arglists :
    /\ call' = NativeCall("isFrozen", NULL, args)
    /\ Returns(obj_is_frozen(heap, NULL, args))

\* Calls of the Object.prototype methods on the instances given.

ObjProtoHasOwnProperty(instances, arglists) ==
  \E instance \in instances, args \in arglists :
    /\ call' = NativeCall("hasOwnProperty", instance, args)
    /\ Returns(obj_proto_has_own_property(heap, instance, args))

ObjProtoIsPrototypeOf(instances, arglists) ==
  \E instance \in instances, args \in arglists :
    /\ call' = NativeCall("isPrototypeOf", instance, args)
    /\ Returns(obj_proto_is_prototype_of(heap, instance, args))

ObjProtoPropertyIsEnumerable(instances, arglists) ==
  \E instance \in instances, args \in arglists :
    /\ call' = NativeCall("propertyIsEnumerable", instance, args)
    /\ Returns(obj_proto_property_is_enumerable(heap, instance, args))

ObjProtoToLocaleString(instances, arglists) ==
  \E instance \in instances, args \in arglists :
    /\ call' = NativeCall("toLocaleString", instance, args)
    /\ Returns(obj_proto_to_locale_string(heap, instance, args))

ObjProtoToString(instances, arglists) ==
  \E instance \in instances, args \in arglists :
    /\ call' = NativeCall("toString", instance, args)
    /\ Returns(obj_proto_to_string(heap, instance, args))

ObjProtoValueOf(instances, arglists) ==
  \E instance \in instances, args \in arglists :
    /\ call' = NativeCall("valueOf", instance, args)
    /\ Returns(obj_proto_value_of(heap, instance, args))

----------------------------------------------------------------------------
\* SpecDesc: descriptors.  O2 starts as a descriptor literal, each of its
\* fields absent or set by fh_set; O1 is the object properties are defined
\* on and read back from.

\* What a descriptor field may hold (NULL: the key is absent).
DescFlagFields == {NULL, JSBOOL(TRUE), JSBOOL(FALSE), JSNUM(1)}
DescValueFields == {NULL, JSNUM(7), F}

SetField(h, obj, name, val) == IF val = NULL THEN h ELSE fh_set(h, obj, name, val)

\* The heap after the literal {value: v, writable: w, enumerable: e,
\* configurable: c} is stored field by field into O2.
DescHeap(v, w, e, c) ==
  SetField(SetField(SetField(SetField(InitHeap(NoLinks),
    O2, "value", v), O2, "writable", w), O2, "enumerable", e),
    O2, "configurable", c)

InitDesc ==
  /\ \E v \in DescValueFields, w \in DescFlagFields, e \in DescFlagFields,
        c \in DescFlagFields : heap = DescHeap(v, w, e, c)
  /\ call = NoCall
  /\ ret = NULL
  /\ err = NoError

NextDesc ==
  \/ ObjDefineProperty({<<O1, JSSTR("x"), d>> :
                          d \in (ObjectsOn(heap) \ {O1, O3}) \cup {JSUNDEF}})
  \/ ObjGetOwnPropertyDescriptor({<<O1, JSSTR("x")>>})

SpecDesc == InitDesc /\ [][NextDesc]_vars

----------------------------------------------------------------------------
\* SpecObject: the guarded methods.  O2 is the descriptor {value: 7,
\* writable: true, enumerable: false, configurable: true}, O3 the properties
\* object {x: O2}; the first argument is absent, null, a primitive, a
\* function or the object O1.

InitObject ==
  /\ heap = fh_set(DescHeap(JSNUM(7), JSBOOL(TRUE), JSBOOL(FALSE), JSBOOL(TRUE)),
                   O3, "x", O2)
  /\ call = NoCall
  /\ ret = NULL
  /\ err = NoError

FirstArgs == {NULL, JSUNDEF, JSNUM(7), F, O1}

\* Argument lists: none at all, or a first argument followed by rest.
ArgLists(rest) == {<<>>} \cup {<<a>> \o rest : a \in FirstArgs}

NextObject ==
  \/ ObjDefineProperty(ArgLists(<<JSSTR("x"), O2>>))
  \/ ObjDefineProperties(ArgLists(<<O3>>))
  \/ ObjGetOwnPropertyDescriptor(ArgLists(<<JSSTR("x")>>))
  \/ ObjKeys(ArgLists(<<>>))
  \/ ObjGetOwnPropertyNames(ArgLists(<<>>))
  \/ ObjGetPrototypeOf(ArgLists(<<>>))
  \/ ObjPreventExtensions(ArgLists(<<>>))
  \/ ObjIsExtensible(ArgLists(<<>>))
  \/ ObjSeal(ArgLists(<<>>))
  \/ ObjIsSealed(ArgLists(<<>>))
  \/ ObjFreeze(ArgLists(<<>>))
  \/ ObjIsFrozen(ArgLists(<<>>))

SpecObject == InitObject /\ [][NextObject]_vars

----------------------------------------------------------------------------
\* SpecCreate: Object.create and Object.defineProperties.  O3 is the
\* properties object: "x" and maybe "y", enumerable or not, each holding a
\* descriptor (O2 or O1), a number or a function.  O2 is a descriptor whose
\* value and enumerable fields vary, O1 the descriptor {value: 8}.

\* An entry of the properties object: <<value, flags>>, NULL when absent.
EntriesX == {O2, JSNUM(7), F} \X {P_DEFAULT, {P_WRITE}}
EntriesY == {NULL, <<O1, P_DEFAULT>>}

SetEntry(h, obj, name, entry) ==
  IF entry = NULL THEN h ELSE fh_set_prop(h, obj, name, entry[1], entry[2])

InitCreate ==
  /\ \E v \in {NULL, JSNUM(7)}, e \in {NULL, JSBOOL(TRUE), JSBOOL(FALSE)},
        x \in EntriesX, y \in EntriesY :
       heap = SetEntry(SetEntry(
                fh_set(DescHeap(v, JSBOOL(TRUE), e, NULL), O1, "value", JSNUM(8)),
                O3, "x", x), O3, "y", y)
  /\ call = NoCall
  /\ ret = NULL
  /\ err = NoError

NextCreate ==
  \/ ObjCreate({<<>>, <<O1, O3>>, <<JSNUM(7), O3>>, <<O3, JSNUM(7)>>})
  \/ ObjDefineProperties({<<t, O3>> : t \in ObjectsOn(heap) \ {O2}}
                           \cup {<<O1>>, <<O1, JSNUM(7)>>, <<JSUNDEF, O3>>})

SpecCreate == InitCreate /\ [][NextCreate]_vars

----------------------------------------------------------------------------
\* SpecKeys: enumeration.  O1, whose prototype O2 owns "z", gets "x", "y" and
\* "w" set enumerable or not, defined from the descriptor O3 = {value: 7,
\* enumerable: true} and deleted; keys and getOwnPropertyNames list it.

KeysLinks == [o \in Objs |-> IF o = O1 THEN <<O2, NULL>> ELSE <<NULL, NULL>>]
KeysNames == {"x", "y", "w"}

InitKeys ==
  /\ heap = fh_set(fh_set(fh_set(InitHeap(KeysLinks), O2, "z", JSNUM(7)),
                          O3, "value", JSNUM(7)), O3, "enumerable", JSBOOL(TRUE))
  /\ call = NoCall
  /\ ret = NULL
  /\ err = NoError

NextKeys ==
  \/ FhSetProp({O1} \X KeysNames, {JSNUM(7)}, {P_DEFAULT, {P_WRITE}})
  \/ FhDelProp({O1}, KeysNames)
  \/ ObjDefineProperty({<<O1, JSSTR("y"), O3>>})
  \/ ObjKeys({<<O1>>})
  \/ ObjGetOwnPropertyNames({<<O1>>})

SpecKeys == InitKeys /\ [][NextKeys]_vars

----------------------------------------------------------------------------
\* SpecProto: prototype chains.  O1, O2 and O3 start unlinked, as the chain
\* O1 -> O2 -> O3 or as two objects sharing the prototype O3; Object.create
\* adds objects below any of them and the Object.prototype methods query them.

ProtoLinks ==
  { NoLinks,
    [o \in Objs |-> IF o = O1 THEN <<O2, NULL>>
                    ELSE IF o = O2 THEN <<O3, NULL>> ELSE <<NULL, NULL>>],
    [o \in Objs |-> IF o = O3 THEN <<NULL, NULL>> ELSE <<O3, NULL>>] }

InitProto ==
  /\ \E links \in ProtoLinks : heap = InitHeap(links)
  /\ call = NoCall
  /\ ret = NULL
  /\ err = NoError

NextProto ==
  \/ ObjCreate({<<proto>> : proto \in ObjectsOn(heap)})
  \/ FhSetProp({<<O1, "x">>}, {JSNUM(7)}, {P_DEFAULT, {P_WRITE}})
  \/ ObjProtoHasOwnProperty(ObjectsOn(heap), {<<JSSTR("x")>>})
  \/ ObjProtoIsPrototypeOf(ObjectsOn(heap), {<<obj>> : obj \in ObjectsOn(heap)})
  \/ ObjProtoPropertyIsEnumerable(ObjectsOn(heap), {<<JSSTR("x")>>})
  \/ ObjProtoToLocaleString(ObjectsOn(heap), {<<>>})
  \/ ObjProtoToString(ObjectsOn(heap), {<<>>})
  \/ ObjProtoValueOf(ObjectsOn(heap), {<<>>})

SpecProto == InitProto /\ [][NextProto]_vars

----------------------------------------------------------------------------
\* SpecBoot: start-up.  The heap is empty, with room for the values
\* bootstrap_object allocates; after it the evaluator reads the methods off
\* Object and Object.prototype, by own get and along the prototype chain.

\* The cells bootstrap_object allocates: Object, its prototype, the methods.
BootCells == 1..(2 + Len(ObjectMethods) + Len(PrototypeMethods))

\* Object and Object.prototype as allocated on the empty heap.
BootObject == ObjRef(1)
BootPrototype == ObjRef(2)

\* The method names of the Object namespace and of Object.prototype.
NamespaceMethods ==
  {"create", "defineProperty", "defineProperties", "getOwnPropertyDescriptor",
   "keys", "getOwnPropertyNames", "getPrototypeOf", "isExtensible", "isSealed",
   "isFrozen", "preventExtensions", "seal", "freeze"}

PrototypeMethodNames ==
  {"hasOwnProperty", "isPrototypeOf", "propertyIsEnumerable", "toString",
   "valueOf", "toLocaleString"}

Booted(h) == h[BootObject.ref].used

BootstrapObject ==
  \E flags \in SUBSET P_DEFAULT :
    /\ ~Booted(heap)
    /\ call' = NativeCall("bootstrap_object", NULL, <<>>)
    /\ Returns(bootstrap_object(heap, flags))

InitBoot ==
  /\ heap = [i \in BootCells |-> FreeCell]
  /\ call = NoCall
  /\ ret = NULL
  /\ err = NoError

NextBoot ==
  \/ BootstrapObject
  \/ Booted(heap) /\ FhGet({BootObject}, NamespaceMethods \cup {"prototype"})
  \/ Booted(heap) /\ FhGet({BootPrototype}, PrototypeMethodNames)
  \/ Booted(heap) /\ FhGetProto({BootPrototype}, {"toString", "valueOf"})

SpecBoot == InitBoot /\ [][NextBoot]_vars

----------------------------------------------------------------------------
\* SpecWalk: the traversals step by step.  A call of fh_get_rec,
\* fh_get_proto, fh_set_rec or isPrototypeOf is a frame in call: the object
\* the walk is at (NULL for a null pointer), the objects examined so far and
\* whether the function has returned.  One step is one activation of
\* fh_get_prop_rec / fh_get_prop_proto or one turn of the while loop.  The
\* evaluator is single-threaded: nothing else runs until the walk returns.

Frame(op, obj, name, val, args, at) ==
  [op |-> op, obj |-> obj, name |-> name, val |-> val, flags |-> {},
   args |-> args, visited |-> <<>>, at |-> at, done |-> FALSE]

IsFrame(c) == "done" \in DOMAIN c
Walking(op) == IF IsFrame(call) THEN ~call.done /\ call.op = op ELSE FALSE
Idle == IF IsFrame(call) THEN call.done ELSE TRUE

\* The function is entered: nothing is examined yet.
Enter(frame) ==
  /\ Idle
  /\ err # SIGSEGV
  /\ call' = frame
  /\ ret' = NULL
  /\ err' = NoError
  /\ UNCHANGED heap

\* The object at hand is examined: the walk moves along the link next unless
\* the object ends it (found) or has no such link, and then returns result.
Advance(found, next, result) ==
  IF ~found /\ next # NULL
  THEN /\ call' = [call EXCEPT !.visited = Append(@, call.at), !.at = next]
       /\ UNCHANGED <<heap, ret, err>>
  ELSE /\ call' = [call EXCEPT !.visited = Append(@, call.at), !.done = TRUE]
       /\ Returns(result)

FhGetRecCall ==
  \E obj \in Objs, name \in Names :
    Enter(Frame("fh_get_rec", obj, name, NULL, <<>>, obj))

\* Mutant: the scope walk goes on past an owner of the name.
FhGetPropRecStepPastOwner ==
  /\ Walking("fh_get_rec")
  /\ LET prop == fh_get_prop(heap, call.at, call.name)
     IN Advance(FALSE, heap[call.at.ref].parent,
                [heap |-> heap,
                 ret |-> IF prop # NULLPROP THEN Deref(heap, prop).ptr ELSE JSUNDEF,
                 err |-> NoError])

FhGetPropRecStep ==
  /\ Walking("fh_get_rec")
  /\ LET prop == fh_get_prop(heap, call.at, call.name)
     IN Advance(prop # NULLPROP, heap[call.at.ref].parent,
                [heap |-> heap,
                 ret |-> IF prop # NULLPROP THEN Deref(heap, prop).ptr ELSE JSUNDEF,
                 err |-> NoError])

FhGetProtoCall ==
  \E obj \in Objs, name \in Names :
    Enter(Frame("fh_get_proto", obj, name, NULL, <<>>, obj))

FhGetPropProtoStep ==
  /\ Walking("fh_get_proto")
  /\ LET prop == fh_get_prop(heap, call.at, call.name)
         val == IF prop # NULLPROP THEN Deref(heap, prop).ptr ELSE JSUNDEF
     IN Advance(prop # NULLPROP, heap[call.at.ref].proto,
                [heap |-> IF val.type = T_FUNCTION
                          THEN [heap EXCEPT ![val.ref].instance = call.obj]
                          ELSE heap,
                 ret |-> val,
                 err |-> NoError])

FhSetRecCall ==
  \E obj \in Objs, name \in Names :
    Enter(Frame("fh_set_rec", obj, name, JSNUM(7), <<>>, obj))

\* prop is found at call.at; parent is non-null once the loop has turned.
FhSetRecStep ==
  /\ Walking("fh_set_rec")
  /\ LET prop == fh_get_prop(heap, call.at, call.name)
         parent == IF call.visited # <<>> THEN call.at ELSE NULL
         scope == IF prop # NULLPROP /\ parent # NULL THEN parent ELSE call.obj
     IN Advance(prop # NULLPROP, heap[call.at.ref].parent,
                Void(fh_set(heap, scope, call.name, call.val)))

IsPrototypeOfCall ==
  \E instance \in Objs, obj \in Objs :
    Enter(Frame("isPrototypeOf", instance, "", NULL, <<obj>>, heap[obj.ref].proto))

IsPrototypeOfStep ==
  /\ Walking("isPrototypeOf")
  /\ IF call.at = NULL
     THEN /\ call' = [call EXCEPT !.done = TRUE]
          /\ Returns(Return(heap, JSBOOL(FALSE)))
     ELSE Advance(call.at = call.obj, heap[call.at.ref].proto,
                  Return(heap, JSBOOL(call.at = call.obj)))

\* Between walks the evaluator binds the name in any object.
WalkSet == Idle /\ FhSet(Targets, {F})

WalkSteps ==
  \/ FhGetPropRecStep
  \/ FhGetPropProtoStep
  \/ FhSetRecStep
  \/ IsPrototypeOfStep

InitWalk == Init

NextWalk ==
  \/ WalkSet
  \/ FhGetRecCall
  \/ FhGetPropRecStep
  \/ FhGetProtoCall
  \/ FhGetPropProtoStep
  \/ FhSetRecCall
  \/ FhSetRecStep
  \/ IsPrototypeOfCall
  \/ IsPrototypeOfStep

\* A function entered runs on: its next step is taken.
SpecWalk == InitWalk /\ [][NextWalk]_vars /\ WF_vars(WalkSteps)

----------------------------------------------------------------------------
\* SpecAll: every operation.  The prototype chain is O1 -> O2 -> O3 and
\* the scope chain runs the other way, O3 -> O2 -> O1.  O3 is the descriptor
\* {value: 7, writable: true, enumerable: true, configurable: true} and O2
\* the properties object {x: O3}.  The engine calls, the Object namespace
\* methods and the Object.prototype methods run in any order, on these
\* objects and on those created meanwhile.

AllLinks ==
  [o \in Objs |-> IF o = O1 THEN <<O2, NULL>>
                  ELSE IF o = O2 THEN <<O3, O1>> ELSE <<NULL, O2>>]

InitAll ==
  /\ heap = fh_set(fh_set(fh_set(fh_set(fh_set(InitHeap(AllLinks),
              O3, "value", JSNUM(7)), O3, "writable", JSBOOL(TRUE)),
              O3, "enumerable", JSBOOL(TRUE)), O3, "configurable", JSBOOL(TRUE)),
              O2, "x", O3)
  /\ call = NoCall
  /\ ret = NULL
  /\ err = NoError

NextAll ==
  \/ FhGet({O1, JSUNDEF}, Names)
  \/ FhGetRec({O3}, Names)
  \/ FhGetProto({O1}, Names)
  \/ FhSet({<<O1, "x">>}, {JSNUM(7)})
  \/ FhSetProp({<<O1, "x">>}, {JSNUM(7)}, {P_DEFAULT})
  \/ FhSetRec({<<O1, "x">>}, {JSNUM(7)})
  \/ FhDelProp({O1}, Names)
  \/ ObjCreate({<<proto>> : proto \in ObjectsOn(heap)} \cup {<<O1, O2>>})
  \/ ObjDefineProperty({<<O1, JSSTR("x"), O3>>})
  \/ ObjDefineProperties({<<O1, O2>>})
  \/ ObjGetOwnPropertyDescriptor({<<O1, JSSTR("x")>>})
  \/ ObjKeys({<<O1>>})
  \/ ObjGetOwnPropertyNames({<<O1>>})
  \/ ObjGetPrototypeOf({<<O1>>})
  \/ ObjPreventExtensions({<<O1>>})
  \/ ObjIsExtensible({<<O1>>})
  \/ ObjSeal({<<O1>>})
  \/ ObjIsSealed({<<O1>>})
  \/ ObjFreeze({<<O1>>})
  \/ ObjIsFrozen({<<O1>>})
  \/ ObjProtoHasOwnProperty({O1}, {<<JSSTR("x")>>})
  \/ ObjProtoIsPrototypeOf({O3}, {<<obj>> : obj \in ObjectsOn(heap)})
  \/ ObjProtoPropertyIsEnumerable({O1}, {<<JSSTR("x")>>})
  \/ ObjProtoToLocaleString({O1}, {<<>>})
  \/ ObjProtoToString({O1}, {<<>>})
  \/ ObjProtoValueOf({O1}, {<<>>})

SpecAll == InitAll /\ [][NextAll]_vars

----------------------------------------------------------------------------
\* SpecWrite: writes against the flags.  O1 is frozen, sealed and marked
\* extensible in any order while "x" and "y" are written to it by fh_set,
\* fh_set_prop, fh_set_rec and by defineProperty with the descriptor
\* O3 = {value: 9, writable: false}.

WriteNames == {"x", "y"}
WriteVals == {JSNUM(7), JSNUM(8)}
WriteTargets == {O1} \X WriteNames

InitWrite ==
  /\ heap = fh_set(fh_set(InitHeap(NoLinks), O3, "value", JSNUM(9)),
                   O3, "writable", JSBOOL(FALSE))
  /\ call = NoCall
  /\ ret = NULL
  /\ err = NoError

NextWrite ==
  \/ FhSet(WriteTargets, WriteVals)
  \/ FhSetProp(WriteTargets, WriteVals, {P_NONE})
  \/ FhSetRec(WriteTargets, WriteVals)
  \/ ObjDefineProperty({<<O1, JSSTR(n), O3>> : n \in WriteNames})
  \/ ObjPreventExtensions({<<O1>>})
  \/ ObjSeal({<<O1>>})
  \/ ObjFreeze({<<O1>>})

SpecWrite == InitWrite /\ [][NextWrite]_vars

----------------------------------------------------------------------------
\* Vocabulary of the properties.

\* The flag word a record carries.
FlagsOfRec(rec) ==
  {fl \in {P_WRITE} : rec.writable} \cup {fl \in {P_ENUM} : rec.enumerable}
    \cup {fl \in {P_CONF} : rec.configurable}

\* Positions of the records named name in a table.
Positions(map, name) == {i \in 1..Len(map) : map[i].name = name}

Owns(h, obj, name) == Positions(h[obj.ref].map, name) # {}

IsSetCall(c) == c.op \in {"fh_set", "fh_set_prop"}

FlagsPassed(c) == IF c.op = "fh_set_prop" THEN c.flags ELSE P_DEFAULT

----------------------------------------------------------------------------
\* C1: a set followed by an own get returns the value set, the record
\* carries exactly the flags passed (all three for fh_set), an existing name
\* is overwritten in place with the record count unchanged, an absent name
\* adds exactly one record, and no table ever holds two records of one name.
C1_Step ==
  /\ \A i \in Cells, name \in TableNames :
       Cardinality(Positions(heap'[i].map, name)) <= 1
  /\ IsSetCall(call') =>
       LET o == call'.obj
           n == call'.name
           at == Positions(heap'[o.ref].map, n)
       IN /\ fh_get(heap', o, n).ret = call'.val
          /\ fh_get(heap', o, n).err = NoError
          /\ \A i \in at : FlagsOfRec(heap'[o.ref].map[i]) = FlagsPassed(call')
          /\ at # {}
          /\ Len(heap'[o.ref].map) =
               Len(heap[o.ref].map) + (IF Owns(heap, o, n) THEN 0 ELSE 1)
          /\ Owns(heap, o, n) => Positions(heap[o.ref].map, n) = at

\* C1: every step of the engine is such a step: a set is read back by an own
\* get with the flags passed, in place or as one new record, names unique.
C1_SetThenGet == [][C1_Step]_vars

\* O1 holds two records and the first, set before the other, has just been
\* overwritten with new flags and a new value.
C1_Witness ==
  /\ call.op = "fh_set_prop"
  /\ call.obj = O1
  /\ Len(heap[O1.ref].map) = 2
  /\ heap[O1.ref].map[1].name = call.name
  /\ heap[O1.ref].map[1].ptr = JSNUM(8)
  /\ call.flags = {P_ENUM}
  /\ FlagsOfRec(heap[O1.ref].map[2]) = P_DEFAULT

----------------------------------------------------------------------------
\* The objects met from obj along parent-scope links, nearest first.
RECURSIVE ScopeChain(_, _)
ScopeChain(h, obj) ==
  IF h[obj.ref].parent = NULL THEN <<obj>>
  ELSE <<obj>> \o ScopeChain(h, h[obj.ref].parent)

\* The objects met from obj along prototype links, nearest first.
RECURSIVE ProtoChain(_, _)
ProtoChain(h, obj) ==
  IF h[obj.ref].proto = NULL THEN <<obj>>
  ELSE <<obj>> \o ProtoChain(h, h[obj.ref].proto)

\* Positions of a chain whose object owns name.
OwnersIn(h, chain, name) == {i \in 1..Len(chain) : Owns(h, chain[i], name)}

Min(S) == CHOOSE i \in S : \A j \in S : i <= j

\* The value an own record of obj holds under name.
OwnValue(h, obj, name) ==
  h[obj.ref].map[Min(Positions(h[obj.ref].map, name))].ptr

\* C2: fh_set_rec writes to exactly one scope, the first one outward from S
\* that owns the name, or S itself when none does; every other cell is
\* unchanged, and an own get on S still misses when only an outer scope owned
\* the name.
C2_Step ==
  call'.op = "fh_set_rec" =>
    LET S == call'.obj
        n == call'.name
        chain == ScopeChain(heap, S)
        owners == OwnersIn(heap, chain, n)
        target == IF owners # {} THEN chain[Min(owners)] ELSE S
    IN /\ \A i \in Cells \ {target.ref} : heap'[i] = heap[i]
       /\ heap'[target.ref] = [heap[target.ref] EXCEPT !.map = heap'[target.ref].map]
       /\ Owns(heap', target, n)
       /\ OwnValue(heap', target, n) = call'.val
       /\ \A m \in Names \ {n} :
            Positions(heap'[target.ref].map, m) = Positions(heap[target.ref].map, m)
       /\ Len(heap'[target.ref].map) =
            Len(heap[target.ref].map) + (IF owners # {} THEN 0 ELSE 1)
       /\ (owners # {} /\ ~Owns(heap, S, n)) => fh_get(heap', S, n).ret = JSUNDEF

\* C2: every fh_set_rec step writes to the nearest owning scope, or to the
\* innermost scope when none owns the name, and to nothing else.
C2_SetRecTarget == [][C2_Step]_vars

\* set_rec from O1 landed two scopes out, in O3; O1 and O2 still miss.
C2_Witness ==
  /\ call.op = "fh_set_rec"
  /\ call.obj = O1
  /\ ScopeChain(heap, O1) = <<O1, O2, O3>>
  /\ ~Owns(heap, O1, call.name)
  /\ ~Owns(heap, O2, call.name)
  /\ Owns(heap, O3, call.name)
  /\ OwnValue(heap, O3, call.name) = call.val
  /\ fh_get(heap, O1, call.name).ret = JSUNDEF

----------------------------------------------------------------------------
\* The value of the nearest owner of name in a chain, Undefined on a miss.
NearestValue(h, chain, name) ==
  IF OwnersIn(h, chain, name) = {} THEN JSUNDEF
  ELSE OwnValue(h, chain[Min(OwnersIn(h, chain, name))], name)

\* C3: a Function-kind value resolved by fh_get_proto, from the receiver or
\* from any ancestor, has the original receiver as its bound instance.
C3_BoundInstance ==
  (call.op = "fh_get_proto" /\ ret.type = T_FUNCTION) =>
     heap[ret.ref].instance = call.obj

\* The function is owned two prototypes up from the receiver O1.
C3_Witness ==
  /\ call.op = "fh_get_proto"
  /\ call.obj = O1
  /\ ProtoChain(heap, O1) = <<O1, O2, O3>>
  /\ OwnersIn(heap, ProtoChain(heap, O1), call.name) = {3}
  /\ ret = F
  /\ heap[F.ref].instance = O1

\* C4: fh_get raises the TypeError exactly when the receiver is Undefined;
\* on an object it returns the own record's value, or Undefined when the
\* name is not in the own table, whatever its prototype or parent owns.
C4_GetErrors ==
  call.op = "fh_get" =>
    /\ (err # NoError) <=> (call.obj.type = T_UNDEF)
    /\ call.obj.type = T_UNDEF =>
         err = [kind |-> "TypeError",
                msg |-> "Cannot read property '" \o call.name
                          \o "' of undefined"]
    /\ call.obj.type = T_OBJECT =>
         ret = IF Owns(heap, call.obj, call.name)
               THEN OwnValue(heap, call.obj, call.name)
               ELSE JSUNDEF

\* An own get misses although the prototype or the parent owns the name.
C4_Witness ==
  /\ call.op = "fh_get"
  /\ call.obj \in Objs
  /\ ~Owns(heap, call.obj, call.name)
  /\ \/ /\ heap[call.obj.ref].proto # NULL
        /\ Owns(heap, heap[call.obj.ref].proto, call.name)
     \/ /\ heap[call.obj.ref].parent # NULL
        /\ Owns(heap, heap[call.obj.ref].parent, call.name)
  /\ ret = JSUNDEF
  /\ err = NoError

\* The TypeError is raised on an Undefined receiver.
C4_WitnessRaise ==
  /\ call.op = "fh_get"
  /\ call.obj = JSUNDEF
  /\ err.kind = E_TYPE

\* C5: fh_get_rec resolves along parent links only and fh_get_proto along
\* prototype links only, each to the nearest owner; fh_set_rec writes to no
\* object outside the parent chain.
C5_Step ==
  /\ call'.op = "fh_get_rec" =>
       ret' = NearestValue(heap, ScopeChain(heap, call'.obj), call'.name)
  /\ call'.op = "fh_get_proto" =>
       ret' = NearestValue(heap, ProtoChain(heap, call'.obj), call'.name)
  /\ call'.op = "fh_set_rec" =>
       \A i \in Cells :
         (\A k \in 1..Len(ScopeChain(heap, call'.obj)) :
            ScopeChain(heap, call'.obj)[k].ref # i) => heap'[i] = heap[i]

\* C5: every traversal step keeps to its own axis and resolves to the
\* nearest owner on it.
C5_AxesApart == [][C5_Step]_vars

\* fh_get_rec from O2 misses a name that O2's own prototype O1 owns.
C5_Witness ==
  /\ call.op = "fh_get_rec"
  /\ call.obj = O2
  /\ heap[O2.ref].proto = O1
  /\ ScopeChain(heap, O2) = <<O2, O3>>
  /\ Owns(heap, O1, call.name)
  /\ OwnersIn(heap, ScopeChain(heap, O2), call.name) = {}
  /\ ret = JSUNDEF

\* fh_get_proto from O2 misses a name that the parent scope of O2's
\* prototype owns.
C5_WitnessProto ==
  /\ call.op = "fh_get_proto"
  /\ call.obj = O2
  /\ ProtoChain(heap, O2) = <<O2, O1>>
  /\ heap[O1.ref].parent = O2
  /\ heap[O2.ref].parent = O3
  /\ Owns(heap, O3, call.name)
  /\ OwnersIn(heap, ProtoChain(heap, O2), call.name) = {}
  /\ ret = JSUNDEF

\* The table without its records named name, the others in order.
Without(map, name) == SelectSeq(map, LAMBDA rec : rec.name # name)

\* C6: fh_del_prop removes the own record of that name when present and
\* changes nothing else: not the other records of the object, not any other
\* object; when the object does not own the name nothing changes at all.
C6_Step ==
  call'.op = "fh_del_prop" =>
    LET o == call'.obj
        n == call'.name
    IN /\ \A i \in Cells \ {o.ref} : heap'[i] = heap[i]
       /\ heap'[o.ref] =
            [heap[o.ref] EXCEPT !.map = Without(heap[o.ref].map, n)]
       /\ ~Owns(heap, o, n) => heap' = heap
       /\ err' = NoError

\* C6: every fh_del_prop step touches the own table of its object only.
C6_DeleteOwnOnly == [][C6_Step]_vars

\* "x" was deleted on O1; its prototype O2 and its parent O3 still own "x"
\* and O1 still owns "y".
C6_Witness ==
  /\ call.op = "fh_del_prop"
  /\ call.obj = O1
  /\ call.name = "x"
  /\ heap[O1.ref].proto = O2
  /\ heap[O1.ref].parent = O3
  /\ ~Owns(heap, O1, "x")
  /\ Owns(heap, O1, "y")
  /\ Owns(heap, O2, "x")
  /\ Owns(heap, O3, "x")

\* C7: fh_del_prop on an own record whose Configurable flag is false raises
\* no error and leaves the record in the table, so that a following fh_get
\* returns its value.
C7_Step ==
  (/\ call'.op = "fh_del_prop"
   /\ Owns(heap, call'.obj, call'.name)
   /\ ~heap[call'.obj.ref].map[Min(Positions(heap[call'.obj.ref].map,
                                             call'.name))].configurable)
  => /\ err' = NoError
     /\ heap'[call'.obj.ref].map = heap[call'.obj.ref].map
     /\ fh_get(heap', call'.obj, call'.name).ret
          = OwnValue(heap, call'.obj, call'.name)

\* C7: every fh_del_prop step on a record whose Configurable flag is false
\* leaves the record in the table.
C7_NonConfigurableStays == [][C7_Step]_vars

----------------------------------------------------------------------------
\* obj holds, as an own property under key, exactly the value val.
HoldsOwn(h, obj, key, val) ==
  \E i \in 1..Len(h[obj.ref].map) :
    h[obj.ref].map[i].name = key /\ h[obj.ref].map[i].ptr = val

FlagKey(fl) ==
  IF fl = P_WRITE THEN "writable"
  ELSE IF fl = P_ENUM THEN "enumerable" ELSE "configurable"

\* The flags whose key the descriptor holds as Boolean true.
TrueFlags(h, desc) ==
  {fl \in P_DEFAULT : HoldsOwn(h, desc, FlagKey(fl), JSBOOL(TRUE))}

\* C8: flags_from_descriptor sets each flag exactly when the descriptor's
\* own property under its key is Boolean true (absent, non-Boolean and false
\* all clear it, each flag on its own), and computing the flags for a
\* defineProperty changes nothing but the property being defined.
C8_Flags ==
  \A d \in ObjectsOn(heap) :
    flags_from_descriptor(heap, d) = [flags |-> TrueFlags(heap, d), err |-> NoError]

C8_Step ==
  (call'.op = "defineProperty" /\ err' = NoError) =>
    LET obj == call'.args[1]
        n == call'.args[2].str
    IN /\ \A i \in Cells \ {obj.ref} : heap'[i] = heap[i]
       /\ heap'[obj.ref] = [heap[obj.ref] EXCEPT !.map = heap'[obj.ref].map]
       /\ Without(heap'[obj.ref].map, n) = Without(heap[obj.ref].map, n)

\* C8: a flag is set exactly when its key holds Boolean true, in every
\* state, and computing the flags changes no table or flag.
C8_FlagsFromDescriptor == []C8_Flags /\ [][C8_Step]_vars

\* A property was defined from a descriptor whose writable is a number,
\* whose enumerable is false and whose configurable is true: only
\* Configurable is set.
C8_Witness ==
  /\ call.op = "defineProperty"
  /\ call.args = <<O1, JSSTR("x"), O2>>
  /\ HoldsOwn(heap, O2, "writable", JSNUM(1))
  /\ HoldsOwn(heap, O2, "enumerable", JSBOOL(FALSE))
  /\ HoldsOwn(heap, O2, "configurable", JSBOOL(TRUE))
  /\ Owns(heap, O1, "x")
  /\ FlagsOfRec(heap[O1.ref].map[1]) = {P_CONF}

\* A descriptor with a value and three Boolean flag fields.
IsFullDescriptor(h, desc) ==
  /\ desc.type = T_OBJECT
  /\ Owns(h, desc, "value")
  /\ \A fl \in P_DEFAULT :
       \E b \in BOOLEAN : HoldsOwn(h, desc, FlagKey(fl), JSBOOL(b))

DescriptorKeys == {"value", "writable", "enumerable", "configurable"}

\* C9: defineProperty with a full descriptor installs its value and exactly
\* its true flags; getOwnPropertyDescriptor on an own record returns a fresh
\* object holding the record's value and its three flags as Booleans, from
\* which flags_from_descriptor yields the record's flags again; read right
\* after the defineProperty, the descriptor returned equals the one given,
\* field by field.
C9_Step ==
  /\ (call'.op = "defineProperty" /\ err' = NoError
        /\ IsFullDescriptor(heap, call'.args[3])) =>
       LET obj == call'.args[1]
           n == call'.args[2].str
           desc == call'.args[3]
       IN /\ Owns(heap', obj, n)
          /\ OwnValue(heap', obj, n) = OwnValue(heap, desc, "value")
          /\ \A i \in Positions(heap'[obj.ref].map, n) :
               FlagsOfRec(heap'[obj.ref].map[i]) = TrueFlags(heap, desc)
  /\ (call'.op = "getOwnPropertyDescriptor"
        /\ Owns(heap, call'.args[1], call'.args[2].str)) =>
       LET obj == call'.args[1]
           n == call'.args[2].str
           rec == heap[obj.ref].map[Min(Positions(heap[obj.ref].map, n))]
       IN /\ err' = NoError
          /\ ret'.type = T_OBJECT
          /\ ~heap[ret'.ref].used
          /\ \A i \in Cells \ {ret'.ref} : heap'[i] = heap[i]
          /\ Len(heap'[ret'.ref].map) = 4
          /\ HoldsOwn(heap', ret', "value", rec.ptr)
          /\ HoldsOwn(heap', ret', "writable", JSBOOL(rec.writable))
          /\ HoldsOwn(heap', ret', "enumerable", JSBOOL(rec.enumerable))
          /\ HoldsOwn(heap', ret', "configurable", JSBOOL(rec.configurable))
          /\ flags_from_descriptor(heap', ret').flags = FlagsOfRec(rec)
          /\ (call.op = "defineProperty" /\ err = NoError
                /\ call.args[1] = obj /\ call.args[2].str = n
                /\ IsFullDescriptor(heap, call.args[3])) =>
               \A k \in DescriptorKeys :
                 OwnValue(heap', ret', k) = OwnValue(heap, call.args[3], k)

\* C9: every defineProperty and getOwnPropertyDescriptor step keeps the
\* descriptor round trip.
C9_DescriptorRoundTrip == [][C9_Step]_vars

\* The descriptor read back for a property defined with Writable true,
\* Enumerable false, Configurable true and the value 7.
C9_Witness ==
  /\ call.op = "getOwnPropertyDescriptor"
  /\ err = NoError
  /\ ret.type = T_OBJECT
  /\ ret \notin {O1, O2, O3}
  /\ Owns(heap, O1, "x")
  /\ FlagsOfRec(heap[O1.ref].map[1]) = {P_WRITE, P_CONF}
  /\ HoldsOwn(heap, ret, "value", JSNUM(7))
  /\ HoldsOwn(heap, ret, "writable", JSBOOL(TRUE))
  /\ HoldsOwn(heap, ret, "enumerable", JSBOOL(FALSE))
  /\ HoldsOwn(heap, ret, "configurable", JSBOOL(TRUE))

GuardedMethods ==
  {"defineProperty", "defineProperties", "getOwnPropertyDescriptor", "keys",
   "getOwnPropertyNames", "getPrototypeOf", "preventExtensions",
   "isExtensible", "seal", "isSealed", "freeze", "isFrozen"}

\* C10: a guarded Object method whose first argument is missing or not
\* Object-kind raises the TypeError "Object.<method> called on a non-object"
\* and changes no table and no object-state flag.
C10_Step ==
  (/\ call'.op \in GuardedMethods
   /\ \/ call'.args = <<>>
      \/ call'.args[1] = NULL
      \/ call'.args[1].type # T_OBJECT)
  => /\ err' = [kind |-> "TypeError",
                msg |-> "Object." \o call'.op \o " called on a non-object"]
     /\ heap' = heap

\* C10: every call of a guarded method on a missing or non-object first
\* argument raises the TypeError and changes nothing.
C10_NonObjectThrows == [][C10_Step]_vars

\* freeze was called on a function after the object O1 was frozen and given
\* a property: it raised, and the function is not frozen.
C10_Witness ==
  /\ call.op = "freeze"
  /\ call.args = <<F>>
  /\ err = [kind |-> "TypeError", msg |-> "Object.freeze called on a non-object"]
  /\ ~heap[F.ref].frozen
  /\ heap[O1.ref].frozen
  /\ Owns(heap, O1, "x")

----------------------------------------------------------------------------
\* Positions of the records of props that create and defineProperties
\* install: the enumerable ones whose value is an object.
Installable(h, props) ==
  IF props.type # T_OBJECT THEN {}
  ELSE {i \in 1..Len(h[props.ref].map) :
          /\ h[props.ref].map[i].enumerable
          /\ h[props.ref].map[i].ptr.type = T_OBJECT}

NamesOf(map) == {map[i].name : i \in 1..Len(map)}

\* The record an object owns under name.
OwnRecord(h, obj, name) == h[obj.ref].map[Min(Positions(h[obj.ref].map, name))]

\* C11: a create or defineProperties that returns has installed, on the
\* object it returns, one property per enumerable object-valued record of
\* props, holding the descriptor's 'value' field under the flags
\* flags_from_descriptor derives; every other record of the target is as it
\* was, every other cell is untouched, and the object create returns was not
\* allocated before, has the first argument as prototype and owns nothing else.
C11_Step ==
  (call'.op \in {"create", "defineProperties"} /\ err' = NoError) =>
    LET props == ARGN(call'.args, 1)
        target == ret'
        before == IF call'.op = "create" THEN <<>> ELSE heap[target.ref].map
        after == heap'[target.ref].map
        installed == Installable(heap, props)
        keys == {heap[props.ref].map[i].name : i \in installed}
    IN /\ target.type = T_OBJECT
       /\ \A i \in installed :
            LET k == heap[props.ref].map[i].name
                desc == heap[props.ref].map[i].ptr
            IN /\ Cardinality(Positions(after, k)) = 1
               /\ OwnValue(heap', target, k) = fh_get(heap, desc, "value").ret
               /\ FlagsOfRec(OwnRecord(heap', target, k)) =
                    flags_from_descriptor(heap, desc).flags
       /\ NamesOf(after) = NamesOf(before) \cup keys
       /\ Len(after) = Cardinality(NamesOf(after))
       /\ \A i \in 1..Len(before) :
            before[i].name \notin keys => after[i] = before[i]
       /\ \A i \in Cells \ {target.ref} : heap'[i] = heap[i]
       /\ IF call'.op = "create"
          THEN /\ ~heap[target.ref].used
               /\ heap'[target.ref] =
                    [NewCell(T_OBJECT) EXCEPT !.proto = ARG0(call'.args),
                                              !.map = after]
          ELSE /\ target = ARG0(call'.args)
               /\ heap'[target.ref] = [heap[target.ref] EXCEPT !.map = after]

\* C11: every create and defineProperties step installs exactly the
\* enumerable object-valued records of props, by their 'value' field and
\* derived flags, and create returns a fresh object with the given prototype.
C11_InstallDescriptors == [][C11_Step]_vars

\* create(O1, O3) returned a fresh object that owns "y" alone, taken from the
\* descriptor O1, while props also holds "x": a non-enumerable descriptor.
C11_Witness ==
  /\ call = NativeCall("create", NULL, <<O1, O3>>)
  /\ err = NoError
  /\ ret \notin {O1, O2, O3}
  /\ heap[ret.ref].proto = O1
  /\ NamesOf(heap[ret.ref].map) = {"y"}
  /\ OwnValue(heap, ret, "y") = JSNUM(8)
  /\ FlagsOfRec(OwnRecord(heap, ret, "y")) = P_NONE
  /\ NamesOf(heap[O3.ref].map) = {"x", "y"}
  /\ OwnValue(heap, O3, "x") = O2
  /\ ~OwnRecord(heap, O3, "x").enumerable

----------------------------------------------------------------------------
\* The array arr is the dense sequence of the names in listed, each once:
\* its keys are "0" .. "k-1", its length is k, and its elements are the names.
IsDenseListOf(h, arr, listed) ==
  LET k == Cardinality(listed)
      elems == h[arr.ref].map
  IN /\ arr.type = T_ARRAY
     /\ h[arr.ref].length = k
     /\ Len(elems) = k
     /\ NamesOf(elems) = {NumToStr(j) : j \in 0..(k - 1)}
     /\ {elems[j].ptr : j \in 1..k} = {JSSTR(n) : n \in listed}

\* Names of the own records of obj, the enumerable ones only unless all.
OwnNames(h, obj, all) ==
  {h[obj.ref].map[i].name :
     i \in {j \in 1..Len(h[obj.ref].map) : all \/ h[obj.ref].map[j].enumerable}}

\* C12: keys(o) is the dense sequence 0..k-1 of the enumerable own names of
\* o, each once, of length the number of enumerable own records, holding no
\* non-enumerable and no inherited name; getOwnPropertyNames(o) is the dense
\* sequence of all own names, of length the own-record count.
C12_DenseNames ==
  (call.op \in {"keys", "getOwnPropertyNames"} /\ err = NoError) =>
    LET o == ARG0(call.args)
        all == call.op = "getOwnPropertyNames"
        records == {j \in 1..Len(heap[o.ref].map) :
                      all \/ heap[o.ref].map[j].enumerable}
    IN /\ IsDenseListOf(heap, ret, OwnNames(heap, o, all))
       /\ heap[ret.ref].length = Cardinality(records)
       /\ \A n \in NamesOf(heap[heap[o.ref].proto.ref].map) \ OwnNames(heap, o, TRUE) :
            \A j \in 1..Len(heap[ret.ref].map) : heap[ret.ref].map[j].ptr # JSSTR(n)

\* keys(O1) returned ["x", "w"] while O1 owns "x", then "y", not enumerable,
\* then "w", and its prototype owns "z".
C12_Witness ==
  /\ call = NativeCall("keys", NULL, <<O1>>)
  /\ err = NoError
  /\ Len(heap[O1.ref].map) = 3
  /\ heap[O1.ref].map[1].name = "x"
  /\ heap[O1.ref].map[1].enumerable
  /\ heap[O1.ref].map[2].name = "y"
  /\ ~heap[O1.ref].map[2].enumerable
  /\ heap[O1.ref].map[3].enumerable
  /\ heap[ret.ref].length = 2
  /\ fh_get(heap, ret, "0").ret = JSSTR("x")
  /\ fh_get(heap, ret, "1").ret = JSSTR("w")
  /\ Owns(heap, O2, "z")

----------------------------------------------------------------------------
\* The objects reached from obj by one or more prototype links.
Ancestors(h, obj) ==
  {ProtoChain(h, obj)[i] : i \in 2..Len(ProtoChain(h, obj))}

\* C13: P.isPrototypeOf(X) is true exactly when P, the very object, is
\* reached from X by one or more prototype links; it is false for P = X.
C13_IsPrototypeOf ==
  call.op = "isPrototypeOf" =>
    /\ err = NoError
    /\ ret = JSBOOL(call.obj \in Ancestors(heap, ARG0(call.args)))
    /\ call.obj = ARG0(call.args) => ret = JSBOOL(FALSE)

\* On the chain O1 -> O2 -> O3, O3.isPrototypeOf(O1) returned true.
C13_Witness ==
  /\ call = NativeCall("isPrototypeOf", O3, <<O1>>)
  /\ ProtoChain(heap, O1) = <<O1, O2, O3>>
  /\ ret = JSBOOL(TRUE)

\* On the same chain O1.isPrototypeOf(O3) returned false.
C13_WitnessFalse ==
  /\ call = NativeCall("isPrototypeOf", O1, <<O3>>)
  /\ ProtoChain(heap, O1) = <<O1, O2, O3>>
  /\ ret = JSBOOL(FALSE)

----------------------------------------------------------------------------
\* The cell c with the state flag a mutator sets turned on.
WithFlag(c, op) ==
  IF op = "freeze" THEN [c EXCEPT !.frozen = TRUE]
  ELSE IF op = "seal" THEN [c EXCEPT !.sealed = TRUE]
  ELSE [c EXCEPT !.extensible = TRUE]

\* What isFrozen, isSealed and isExtensible return for o.
StateQueries(h, o) ==
  [isFrozen |-> obj_is_frozen(h, NULL, <<o>>).ret,
   isSealed |-> obj_is_sealed(h, NULL, <<o>>).ret,
   isExtensible |-> obj_is_extensible(h, NULL, <<o>>).ret]

\* C14: freeze, seal and preventExtensions each turn on one state flag of
\* the object (frozen, sealed, extensible) and change nothing else: the table,
\* the prototype, the two other flags and every other object stay as they
\* were, so the query of the flag set returns true and the two other queries
\* return what they returned before.
C14_Step ==
  (call'.op \in {"freeze", "seal", "preventExtensions"} /\ err' = NoError) =>
    LET o == ARG0(call'.args)
        q == StateQueries(heap, o)
    IN /\ ret' = o
       /\ heap' = [heap EXCEPT ![o.ref] = WithFlag(@, call'.op)]
       /\ heap'[o.ref].map = heap[o.ref].map
       /\ heap'[o.ref].proto = heap[o.ref].proto
       /\ StateQueries(heap', o) =
            IF call'.op = "freeze" THEN [q EXCEPT !.isFrozen = JSBOOL(TRUE)]
            ELSE IF call'.op = "seal" THEN [q EXCEPT !.isSealed = JSBOOL(TRUE)]
            ELSE [q EXCEPT !.isExtensible = JSBOOL(TRUE)]

\* C14: every freeze, seal and preventExtensions step sets exactly its own
\* flag to true and leaves the other flags, the table and the prototype alone.
C14_OneFlag == [][C14_Step]_vars

\* freeze(O1) returned on an object that owns a property, after
\* preventExtensions: O1 is frozen and extensible but not sealed.
C14_Witness ==
  /\ call = NativeCall("freeze", NULL, <<O1>>)
  /\ err = NoError
  /\ Owns(heap, O1, "x")
  /\ StateQueries(heap, O1) =
       [isFrozen |-> JSBOOL(TRUE), isSealed |-> JSBOOL(FALSE),
        isExtensible |-> JSBOOL(TRUE)]

----------------------------------------------------------------------------
\* obj owns a Function-kind property under every name of names.
OwnsMethods(h, obj, names) ==
  \A n \in names : Owns(h, obj, n) /\ OwnValue(h, obj, n).type = T_FUNCTION

\* C15: the value bootstrap_object returns owns a Function-kind property
\* under each of the thirteen namespace method names, getOwnPropertyNames
\* among them, and its 'prototype' property is an object that owns the six
\* Object.prototype methods.
C15_FullyPopulated ==
  call.op = "bootstrap_object" =>
    /\ ret.type = T_OBJECT
    /\ OwnsMethods(heap, ret, NamespaceMethods)
    /\ Owns(heap, ret, "prototype")
    /\ OwnValue(heap, ret, "prototype").type = T_OBJECT
    /\ OwnsMethods(heap, OwnValue(heap, ret, "prototype"), PrototypeMethodNames)

\* All of it holds but for the one name: the namespace method is registered
\* as "getOwnPropertyName".
C15_AllButOwnPropertyNames ==
  call.op = "bootstrap_object" =>
    /\ ret.type = T_OBJECT
    /\ OwnsMethods(heap, ret,
         (NamespaceMethods \ {"getOwnPropertyNames"}) \cup {"getOwnPropertyName"})
    /\ ~Owns(heap, ret, "getOwnPropertyNames")
    /\ Owns(heap, ret, "prototype")
    /\ OwnValue(heap, ret, "prototype").type = T_OBJECT
    /\ OwnsMethods(heap, OwnValue(heap, ret, "prototype"), PrototypeMethodNames)

----------------------------------------------------------------------------
\* The objects a walk has to examine, in order, if nothing ends it.
WalkChain(h, c) ==
  IF c.op \in {"fh_get_rec", "fh_set_rec"} THEN ScopeChain(h, c.obj)
  ELSE IF c.op = "fh_get_proto" THEN ProtoChain(h, c.obj)
  ELSE Tail(ProtoChain(h, ARG0(c.args)))

\* Positions of a chain at which the walk ends: an owner of the name, or the
\* instance isPrototypeOf looks for.
WalkHits(h, c, chain) ==
  {i \in 1..Len(chain) :
     IF c.op = "isPrototypeOf" THEN chain[i] = c.obj ELSE Owns(h, chain[i], c.name)}

\* What the function returns as computed in one piece.
WalkResult(h, c) ==
  IF c.op = "fh_get_rec" THEN fh_get_rec(h, c.obj, c.name)
  ELSE IF c.op = "fh_get_proto" THEN fh_get_proto(h, c.obj, c.name)
  ELSE IF c.op = "fh_set_rec" THEN Void(fh_set_rec(h, c.obj, c.name, c.val))
  ELSE obj_proto_is_prototype_of(h, c.obj, c.args)

\* What a walk that met no owner and no match returns.
MissValue(op) ==
  IF op = "isPrototypeOf" THEN JSBOOL(FALSE)
  ELSE IF op = "fh_set_rec" THEN NULL ELSE JSUNDEF

\* C16: the objects a traversal has examined are the first objects of its
\* chain, in order and none twice; it goes on while it has met neither an
\* owner (a match, for isPrototypeOf) nor the end of the chain and returns
\* when it meets one; it returns without error, Undefined (false) on a miss.
C16_Step ==
  (IsFrame(call') /\ call' # call) =>
    LET c == call'
        chain == WalkChain(heap, c)
        hits == WalkHits(heap, c, chain)
        stop == IF hits # {} THEN Min(hits) ELSE Len(chain)
        n == Len(c.visited)
    IN /\ n <= Len(chain)
       /\ c.visited = SubSeq(chain, 1, n)
       /\ Cardinality({c.visited[i] : i \in 1..n}) = n
       /\ n <= stop
       /\ c.done => n = stop
       /\ (~c.done /\ stop > 0) => n < stop
       /\ c.done =>
            /\ err' = NoError
            /\ hits = {} => ret' = MissValue(c.op)
            /\ [heap |-> heap', ret |-> ret', err |-> err'] = WalkResult(heap, c)

\* C16: on the acyclic chains every traversal entered returns, having
\* examined each object at most once and stopped at the first owner or match
\* or at the end of the chain, with Undefined or false and no error on a miss.
C16_Terminates ==
  /\ [][C16_Step]_vars
  /\ [](IsFrame(call) => <>(IsFrame(call) /\ call.done))

\* fh_get_rec from O1 went through all three scopes, found no owner and
\* returned Undefined.
C16_Witness ==
  /\ IsFrame(call)
  /\ call.op = "fh_get_rec"
  /\ call.done
  /\ call.visited = <<O1, O2, O3>>
  /\ ret = JSUNDEF
  /\ err = NoError

----------------------------------------------------------------------------
\* C17: getOwnPropertyDescriptor(o, n) on an object o that owns no record
\* named n raises an error: it returns nothing, neither a descriptor object
\* nor Undefined.
C17_Step ==
  (/\ call'.op = "getOwnPropertyDescriptor"
   /\ ARG0(call'.args).type = T_OBJECT
   /\ ~Owns(heap, ARG0(call'.args), ARGN(call'.args, 1).str)) =>
    /\ err'.kind = E_TYPE
    /\ ret' = NULL

\* C17: every getOwnPropertyDescriptor step on a missing record raises.
C17_MissingRecordErrors == [][C17_Step]_vars

\* What the step does instead: the process is killed, or a descriptor of
\* whatever the null pointer yields is returned; no error is ever raised.
C17_CrashOrGarbage ==
  (/\ call.op = "getOwnPropertyDescriptor"
   /\ ARG0(call.args).type = T_OBJECT
   /\ err # SIGSEGV) =>
    /\ err = NoError
    /\ IsFullDescriptor(heap, ret)

----------------------------------------------------------------------------
\* The cell a link of the kind leads to from cell i, 0 when there is none.
LinkFrom(h, i, kind) ==
  IF i = 0 THEN 0
  ELSE LET link == IF kind = "proto" THEN h[i].proto ELSE h[i].parent
       IN IF link = NULL THEN 0 ELSE link.ref

\* The cell reached from i by k links of the kind.
RECURSIVE LinksFrom(_, _, _, _)
LinksFrom(h, i, kind, k) ==
  IF k = 0 THEN i ELSE LinkFrom(h, LinksFrom(h, i, kind, k - 1), kind)

\* Every chain ends: from no cell can as many links be followed as there are
\* cells.
Acyclic(h) ==
  \A kind \in {"proto", "parent"}, i \in DOMAIN h :
    h[i].used => LinksFrom(h, i, kind, Cardinality(DOMAIN h)) = 0

\* C18: no step changes the prototype or the parent link of an allocated
\* value; a link is set only by Object.create, as the prototype of the value
\* it allocates and returns.
C18_Step ==
  \A i \in DOMAIN heap :
    IF heap[i].used
    THEN /\ heap'[i].proto = heap[i].proto
         /\ heap'[i].parent = heap[i].parent
    ELSE heap'[i].used =>
           /\ heap'[i].parent = NULL
           /\ heap'[i].proto # NULL =>
                /\ call'.op = "create"
                /\ ret' = ObjRef(i)
                /\ heap'[i].proto = ARG0(call'.args)
                /\ heap[heap'[i].proto.ref].used

\* C18: from acyclic prototype and parent-scope links, the links stay
\* acyclic under every operation, the only link set being the prototype of
\* the object Object.create allocates.
C18_LinksStayAcyclic == []Acyclic(heap) /\ [][C18_Step]_vars

\* Object.create(O1) returned a new object at the head of the prototype chain
\* O1 -> O2 -> O3, while O1 owns "x" and is frozen.
C18_Witness ==
  /\ call = NativeCall("create", NULL, <<O1>>)
  /\ ret \notin Objs
  /\ ProtoChain(heap, ret) = <<ret, O1, O2, O3>>
  /\ ScopeChain(heap, O3) = <<O3, O2, O1>>
  /\ Owns(heap, O1, "x")
  /\ heap[O1.ref].frozen

----------------------------------------------------------------------------
\* The object, name, value and flag word of a write.
WriteOf(h, c) ==
  IF c.op = "defineProperty"
  THEN [obj |-> ARG0(c.args), name |-> ARGN(c.args, 1).str,
        val |-> fh_get(h, ARGN(c.args, 2), "value").ret,
        flags |-> flags_from_descriptor(h, ARGN(c.args, 2)).flags]
  ELSE [obj |-> c.obj, name |-> c.name, val |-> c.val,
        flags |-> IF c.op = "fh_set_prop" THEN c.flags ELSE P_DEFAULT]

WriteOps == {"fh_set", "fh_set_prop", "fh_set_rec", "defineProperty"}

\* C19: a write by fh_set, fh_set_prop, fh_set_rec or defineProperty takes
\* effect whatever the Writable flag of the record and the frozen, sealed and
\* extensible flags of the object: afterwards the object owns the name with
\* the value written, as a new record if it did not own it, under the flags
\* of the write, which are all three for fh_set and fh_set_rec; the state
\* flags of the object are as they were.
C19_Step ==
  call'.op \in WriteOps =>
    LET w == WriteOf(heap, call')
        o == w.obj
    IN /\ err' = NoError
       /\ Cardinality(Positions(heap'[o.ref].map, w.name)) = 1
       /\ OwnValue(heap', o, w.name) = w.val
       /\ FlagsOfRec(OwnRecord(heap', o, w.name)) = w.flags
       /\ Len(heap'[o.ref].map) =
            Len(heap[o.ref].map) + (IF Owns(heap, o, w.name) THEN 0 ELSE 1)
       /\ heap'[o.ref] = [heap[o.ref] EXCEPT !.map = heap'[o.ref].map]

\* C19: every write step takes effect, on frozen and sealed objects and on
\* records that are not writable as on any other.
C19_NoFlagGatesWrite == [][C19_Step]_vars

\* fh_set has just written "x" on the frozen and sealed O1: the record holds
\* the value under all three flags, next to "y" as defineProperty installed
\* it, not writable.
C19_Witness ==
  /\ call = Call("fh_set", O1, "x", JSNUM(7), {})
  /\ heap[O1.ref].frozen
  /\ heap[O1.ref].sealed
  /\ Len(heap[O1.ref].map) = 2
  /\ heap[O1.ref].map[1].name = "x"
  /\ OwnValue(heap, O1, "x") = JSNUM(7)
  /\ FlagsOfRec(OwnRecord(heap, O1, "x")) = P_DEFAULT
  /\ OwnValue(heap, O1, "y") = JSNUM(9)
  /\ ~OwnRecord(heap, O1, "y").writable

----------------------------------------------------------------------------
\* C20: fh_get and fh_get_rec change nothing; fh_get_proto changes nothing
\* but the bound instance of the Function-kind value it returns, which
\* becomes its receiver; so when two calls in a row resolve the same function
\* for different receivers, the function, the value the first call returned,
\* reports the second receiver and no longer the first.
C20_Step ==
  /\ call'.op \in {"fh_get", "fh_get_rec"} => heap' = heap
  /\ call'.op = "fh_get_proto" =>
       /\ heap' = IF ret'.type = T_FUNCTION
                  THEN [heap EXCEPT ![ret'.ref].instance = call'.obj]
                  ELSE heap
       /\ (call.op = "fh_get_proto" /\ ret = ret' /\ ret.type = T_FUNCTION) =>
            /\ heap[ret.ref].instance = call.obj
            /\ heap'[ret.ref].instance = call'.obj

\* C20: every read step is such a step: only fh_get_proto writes, only the
\* bound instance of the function resolved, and the last resolution wins.
C20_LastResolutionWins == [][C20_Step]_vars

\* O2 and O3 inherit the function from O1 alone; it was resolved for O2 last
\* and is bound to O2.
C20_Witness ==
  /\ call.op = "fh_get_proto"
  /\ call.obj = O2
  /\ ProtoChain(heap, O3) = <<O3, O2, O1>>
  /\ OwnersIn(heap, ProtoChain(heap, O3), call.name) = {3}
  /\ fh_get_proto(heap, O3, call.name).ret = F
  /\ ret = F
  /\ heap[F.ref].instance = O2

====
